---------------------------- MODULE Spec2Model ----------------------------
(***************************************************************************)
(* Centered Kernel Alignment (src/CKA.ipynb): linear_kernel, rbf, HSIC and *)
(* CKA, as the notebook's code cell defines them, driven by top-level      *)
(* calls on bounded matrices.                                              *)
(*                                                                         *)
(* Numbers.  The arrays hold floats; the model draws integer-valued        *)
(* entries and computes exactly: a rational is [num, den] in lowest terms, *)
(* a real that comes out of np.sqrt is a signed square root of a rational  *)
(* (s * sqrt(num/den)), NaN and +-inf are classes of their own, and        *)
(* exp(q) is kept as its exponent q.  Rounding is not modelled.            *)
(***************************************************************************)
EXTENDS Integers, Sequences, FiniteSets, TLC

\* Bounds of the model: the shapes and entries of the input matrices, and the
\* bandwidths handed to rbf.
MaxRows == 3
MaxCols == 2
MaxVal == 1
MaxSigma == 2

\* The names the notebook binds before the code cell runs: `import numpy as np`.
NotebookImports == {"np"}

---------------------------------------------------------------------------
\* Outcomes of a call: a returned value or a raised exception.
Ok(v) == [kind |-> "ok", val |-> v, exc |-> "none"]
Raise(e) == [kind |-> "raise", val |-> [none |-> TRUE], exc |-> e]

\* A local that is not bound yet.
Unbound == [unbound |-> TRUE]

---------------------------------------------------------------------------
\* Exact arithmetic.
Abs(x) == IF x < 0 THEN -x ELSE x
Sign(x) == IF x < 0 THEN -1 ELSE IF x = 0 THEN 0 ELSE 1
Min(a, b) == IF a <= b THEN a ELSE b

RECURSIVE GCD(_, _)
GCD(a, b) == IF b = 0 THEN a ELSE GCD(b, a % b)

\* The rational n/d (d # 0) in lowest terms with a positive denominator.
Rat(n, d) ==
    LET g == GCD(Abs(n), Abs(d))
        sg == Sign(d)
    IN  [num |-> (sg * n) \div g, den |-> Abs(d) \div g]

RatMul(p, q) == Rat(p.num * q.num, p.den * q.den)
RatLeq(p, q) == p.num * q.den <= q.num * p.den

\* A float: finite s * sqrt(q) with q a rational >= 0, or NaN, or +-inf.
Finite(s, q) == [cls |-> "finite", s |-> IF q.num = 0 THEN 0 ELSE s,
                 q |-> IF s = 0 THEN Rat(0, 1) ELSE q]
NaN == [cls |-> "nan", s |-> 0, q |-> Rat(0, 1)]
Inf(s) == [cls |-> "inf", s |-> s, q |-> Rat(0, 1)]
One == Finite(1, Rat(1, 1))

\* The float with the value of the rational r: sign(r) * sqrt(r^2).
RatToReal(r) == Finite(Sign(r.num), RatMul(r, r))

\* a * b: NaN propagates; inf * 0 is NaN.
RMul(a, b) ==
    IF a.cls = "nan" \/ b.cls = "nan" THEN NaN
    ELSE IF a.cls = "inf" \/ b.cls = "inf"
         THEN (IF a.s * b.s = 0 THEN NaN ELSE Inf(a.s * b.s))
    ELSE Finite(a.s * b.s, RatMul(a.q, b.q))

\* a / b on numpy float64 scalars: a zero divisor gives NaN (0/0) or +-inf
\* with a RuntimeWarning; no exception is raised.
RDiv(a, b) ==
    IF a.cls = "nan" \/ b.cls = "nan" THEN NaN
    ELSE IF b.cls = "inf" THEN (IF a.cls = "inf" THEN NaN ELSE Finite(0, Rat(0, 1)))
    ELSE IF a.cls = "inf" THEN Inf(IF b.s < 0 THEN -a.s ELSE a.s)
    ELSE IF b.s = 0 THEN (IF a.s = 0 THEN NaN ELSE Inf(a.s))
    ELSE Finite(a.s * b.s, Rat(a.q.num * b.q.den, a.q.den * b.q.num))

---------------------------------------------------------------------------
\* Matrices: r rows, c columns, entries a[<<i, j>>].
Idx(r, c) == (1..r) \X (1..c)

MatricesOf(r, c) == {[r |-> r, c |-> c, a |-> f] : f \in [Idx(r, c) -> 0..MaxVal]}
Matrices == UNION {MatricesOf(r, c) : r \in 0..MaxRows, c \in 1..MaxCols}

\* M.T
Transpose(M) ==
    [r |-> M.c, c |-> M.r, a |-> [ij \in Idx(M.c, M.r) |-> M.a[<<ij[2], ij[1]>>]]]

RECURSIVE DotTo(_, _, _, _, _)
DotTo(A, B, i, j, k) ==
    IF k = 0 THEN 0 ELSE A.a[<<i, k>>] * B.a[<<k, j>>] + DotTo(A, B, i, j, k - 1)

\* The product of A (r x m) and B (m x c).
MatProd(A, B) ==
    [r |-> A.r, c |-> B.c, a |-> [ij \in Idx(A.r, B.c) |-> DotTo(A, B, ij[1], ij[2], A.c)]]

\* np.matmul / np.dot on 2-D arrays: the inner dimensions must agree.
matmul(A, B) == IF A.c # B.r THEN Raise("ValueError") ELSE Ok(MatProd(A, B))

RECURSIVE TraceTo(_, _)
TraceTo(M, k) == IF k = 0 THEN 0 ELSE M.a[<<k, k>>] + TraceTo(M, k - 1)

\* np.trace
Trace(M) == TraceTo(M, Min(M.r, M.c))

\* linear_kernel with the transpose left out: np.matmul(X, Y).
linear_kernel_NoTranspose(X, Y) == matmul(X, Y)

\* def linear_kernel(X, Y): return np.matmul(X, Y.T)
linear_kernel(X, Y) == matmul(X, Transpose(Y))

---------------------------------------------------------------------------
\* rbf(X, Y, sigma=None).  sigma is NoSigma (None) or Sigma(v).
NoSigma == [given |-> FALSE, v |-> 0]
Sigma(v) == [given |-> TRUE, v |-> v]
Sigmas == {NoSigma} \cup {Sigma(v) : v \in 0..MaxSigma}

\* numpy broadcasting of one axis: equal lengths, or one of them 1; -1 when the
\* lengths cannot be broadcast together.
Broadcast(a, b) == IF a = b THEN a ELSE IF a = 1 THEN b ELSE IF b = 1 THEN a ELSE -1

\* The index read on an axis of length n when the result's index is i.
BIdx(i, n) == IF n = 1 THEN 1 ELSE i

\* np.diag(GX) - GX: the diagonal (a vector of length min(r, c)) is laid along
\* the columns, so the entry at <<i, j>> is GX[j, j] - GX[i, j].
DiagMinus(GX) ==
    LET m == Min(GX.r, GX.c)
        c == Broadcast(m, GX.c)
    IN  IF c = -1 THEN Raise("ValueError")
        ELSE Ok([r |-> GX.r, c |-> c,
                 a |-> [ij \in Idx(GX.r, c) |->
                          GX.a[<<BIdx(ij[2], m), BIdx(ij[2], m)>>]
                          - GX.a[<<ij[1], BIdx(ij[2], GX.c)>>]]])

\* A + B elementwise with broadcasting.
BroadcastAdd(A, B) ==
    LET r == Broadcast(A.r, B.r)
        c == Broadcast(A.c, B.c)
    IN  IF r = -1 \/ c = -1 THEN Raise("ValueError")
        ELSE Ok([r |-> r, c |-> c,
                 a |-> [ij \in Idx(r, c) |->
                          A.a[<<BIdx(ij[1], A.r), BIdx(ij[2], A.c)>>]
                          + B.a[<<BIdx(ij[1], B.r), BIdx(ij[2], B.c)>>]]])

\* KX = np.diag(GX) - GX + (np.diag(GX) - GX).T
SquaredDistances(GX) ==
    LET B == DiagMinus(GX)
    IN  IF B.kind = "raise" THEN B ELSE BroadcastAdd(B.val, Transpose(B.val))

\* KX[KX != 0]: the places of the nonzero entries.
NonZero(KX) == {ij \in Idx(KX.r, KX.c) : KX.a[ij] # 0}

\* The k-th smallest of the entries of KX at the places S (1 <= k <= |S|).
KthSmallest(KX, S, k) ==
    CHOOSE v \in {KX.a[ij] : ij \in S} :
        /\ Cardinality({ij \in S : KX.a[ij] < v}) < k
        /\ k <= Cardinality({ij \in S : KX.a[ij] <= v})

\* np.median of the entries at the places S: the middle one, or the mean of
\* the two middle ones; NaN (with a RuntimeWarning, no exception) when S is empty.
Median(KX, S) ==
    LET m == Cardinality(S)
    IN  IF m = 0 THEN [nan |-> TRUE, q |-> Rat(0, 1)]
        ELSE IF m % 2 = 1
             THEN [nan |-> FALSE, q |-> Rat(KthSmallest(KX, S, (m + 1) \div 2), 1)]
        ELSE [nan |-> FALSE,
              q |-> Rat(KthSmallest(KX, S, m \div 2) + KthSmallest(KX, S, m \div 2 + 1), 2)]

\* KX *= -0.5 / s2 ; KX = np.exp(KX): the matrix of exp(e[i, j]) with
\* e[i, j] = -KX[i, j] / (2 * s2), s2 a rational # 0 (sigma * sigma).
ExpScaled(KX, s2) ==
    [r |-> KX.r, c |-> KX.c,
     e |-> [ij \in Idx(KX.r, KX.c) |-> Rat(-KX.a[ij] * s2.den, 2 * s2.num)]]

\* The matrix np.exp gives when sigma is NaN: every entry NaN.
AllNaN(KX) == [r |-> KX.r, c |-> KX.c, allnan |-> TRUE]

\* What one call of rbf did: its outcome, whether np.median was called and on
\* how many entries.
RbfDone(out, called, count) == [out |-> out, median |-> called, medianOf |-> count]

\* Lines 48-53 of rbf, KX computed.
RbfBandwidth(KX, sigma) ==
    IF ~sigma.given
    THEN \* mdist = np.median(KX[KX != 0]); sigma = math.sqrt(mdist)
         LET S == NonZero(KX)
             mdist == Median(KX, S)
             n == Cardinality(S)
         IN  IF "math" \notin NotebookImports THEN RbfDone(Raise("NameError"), TRUE, n)
             ELSE IF mdist.nan THEN RbfDone(Ok(AllNaN(KX)), TRUE, n)
             ELSE IF mdist.q.num < 0 THEN RbfDone(Raise("ValueError"), TRUE, n)
             ELSE IF mdist.q.num = 0 THEN RbfDone(Raise("ZeroDivisionError"), TRUE, n)
             ELSE RbfDone(Ok(ExpScaled(KX, mdist.q)), TRUE, n)
    ELSE IF sigma.v * sigma.v = 0 THEN RbfDone(Raise("ZeroDivisionError"), FALSE, 0)
    ELSE RbfDone(Ok(ExpScaled(KX, Rat(sigma.v * sigma.v, 1))), FALSE, 0)

\* def rbf(X, Y, sigma=None)
rbf(X, Y, sigma) ==
    LET GX == matmul(X, Transpose(Y))
    IN  IF GX.kind = "raise" THEN RbfDone(GX, FALSE, 0)
        ELSE LET KX == SquaredDistances(GX.val)
             IN  IF KX.kind = "raise" THEN RbfDone(KX, FALSE, 0)
                 ELSE RbfBandwidth(KX.val, sigma)

---------------------------------------------------------------------------
\* n * H for H = np.identity(n) - (1./n) * np.ones((n, n)): the entries of H
\* are (n-1)/n and -1/n; the model keeps H's numerators and divides by n in
\* HSIC's normalizer.
H(n) == [r |-> n, c |-> n, a |-> [ij \in Idx(n, n) |-> IF ij[1] = ij[2] THEN n - 1 ELSE -1]]

\* The normalizer of the biased estimator: n**2 in place of (n-1)**2.
NormalizerBiased(n) == n * n

\* (n-1)**2
Normalizer(n) == (n - 1) * (n - 1)

\* HSIC with L left uncentered: trace(K H L) / (n-1)^2.
HSIC_UncenteredL(K, L) ==
    LET n == K.r
    IN  IF n = 0 THEN Raise("ZeroDivisionError")
        ELSE LET KH == matmul(K, H(n))
             IN  IF KH.kind = "raise" THEN KH
                 ELSE IF (n - 1) * (n - 1) = 0 THEN Raise("ZeroDivisionError")
                 ELSE LET P == matmul(KH.val, L)
                      IN  IF P.kind = "raise" THEN P
                          ELSE Ok(Rat(Trace(P.val), n * (n - 1) * (n - 1)))

\* def HSIC(K, L).  In line 64 the left operand 1./((n-1)**2) is evaluated
\* before np.matmul(KH, LH).
HSIC(K, L) ==
    LET n == K.r
    IN  IF n = 0 THEN Raise("ZeroDivisionError")
        ELSE LET KH == matmul(K, H(n))
                 LH == matmul(L, H(n))
             IN  IF KH.kind = "raise" THEN KH
                 ELSE IF LH.kind = "raise" THEN LH
                 ELSE IF Normalizer(n) = 0 THEN Raise("ZeroDivisionError")
                 ELSE LET P == matmul(KH.val, LH.val)
                      IN  IF P.kind = "raise" THEN P
                          ELSE Ok(Rat(Trace(P.val), n * n * Normalizer(n)))

\* np.sqrt of a rational: NaN (with a RuntimeWarning) below zero.
npsqrt(x) == IF x.num < 0 THEN NaN ELSE Finite(1, x)

---------------------------------------------------------------------------
\* def CKA(X, Y, kernel=None): one frame of the call, stepped a line at a time.
\* A kernel is named: "None" (the argument left out), "linear_kernel" or "rbf".
Kernels == {"None", "linear_kernel", "rbf"}

\* kernel(A, B): the call passes two positional arguments and nothing else.
ApplyKernel(k, A, B) == IF k = "rbf" THEN rbf(A, B, NoSigma).out ELSE linear_kernel(A, B)

\* The frame as the call starts: the arguments bound, the locals not.
EnterCKA(A, B, k) ==
    [pc |-> "l71", X |-> A, Y |-> B, kernel |-> k, K |-> Unbound, L |-> Unbound,
     hsic |-> Unbound, varK |-> Unbound, varL |-> Unbound, ret |-> Unbound,
     calls |-> <<>>]

\* No call of CKA is running.
NoFrame ==
    [pc |-> "idle", X |-> Unbound, Y |-> Unbound, kernel |-> "None", K |-> Unbound,
     L |-> Unbound, hsic |-> Unbound, varK |-> Unbound, varL |-> Unbound,
     ret |-> Unbound, calls |-> <<>>]

\* The frame after an exception leaves the function.
Raised(f, out, log) == [f EXCEPT !.pc = "raised", !.ret = out, !.calls = log]

\* target = kernel(a1, a2), a1 and a2 names of the frame; the call is logged.
CallKernel(f, target, a1, a2, next) ==
    LET out == ApplyKernel(f.kernel, f[a1], f[a2])
        log == Append(f.calls, [fn |-> f.kernel, args |-> <<a1, a2>>])
    IN  IF out.kind = "raise" THEN Raised(f, out, log)
        ELSE [f EXCEPT ![target] = out.val, !.calls = log, !.pc = next]

\* The outcome of HSIC(a1, a2) with the call logged.
CallHSIC(f, a1, a2) ==
    [out |-> HSIC(f[a1], f[a2]),
     log |-> Append(f.calls, [fn |-> "HSIC", args |-> <<a1, a2>>])]

\* kernel = linear_kernel if kernel is None else kernel
Line71(f) ==
    [f EXCEPT !.kernel = IF f.kernel = "None" THEN "linear_kernel" ELSE f.kernel,
              !.pc = "l73"]

\* K = kernel(X, X)
Line73(f) == CallKernel(f, "K", "X", "X", "l74")

\* Line 74 with the kernel called across the two inputs: L = kernel(X, Y).
Line74_CrossKernel(f) == CallKernel(f, "L", "X", "Y", "l76")

\* L = kernel(Y, Y)
Line74(f) == CallKernel(f, "L", "Y", "Y", "l76")

\* Line 76 with K passed twice: hsic = HSIC(K, K).
Line76_SelfHSIC(f) ==
    LET c == CallHSIC(f, "K", "K")
    IN  IF c.out.kind = "raise" THEN Raised(f, c.out, c.log)
        ELSE [f EXCEPT !.hsic = c.out.val, !.calls = c.log, !.pc = "l77"]

\* hsic = HSIC(K, L)
Line76(f) ==
    LET c == CallHSIC(f, "K", "L")
    IN  IF c.out.kind = "raise" THEN Raised(f, c.out, c.log)
        ELSE [f EXCEPT !.hsic = c.out.val, !.calls = c.log, !.pc = "l77"]

\* varK = np.sqrt(HSIC(K, K))
Line77(f) ==
    LET c == CallHSIC(f, "K", "K")
    IN  IF c.out.kind = "raise" THEN Raised(f, c.out, c.log)
        ELSE [f EXCEPT !.varK = npsqrt(c.out.val), !.calls = c.log, !.pc = "l78"]

\* varL = np.sqrt(HSIC(L, L))
Line78(f) ==
    LET c == CallHSIC(f, "L", "L")
    IN  IF c.out.kind = "raise" THEN Raised(f, c.out, c.log)
        ELSE [f EXCEPT !.varL = npsqrt(c.out.val), !.calls = c.log, !.pc = "l79"]

\* return hsic / (varK * varL)
Line79(f) ==
    [f EXCEPT !.ret = Ok(RDiv(RatToReal(f.hsic), RMul(f.varK, f.varL))),
              !.pc = "returned"]

Finished(f) == f.pc \in {"returned", "raised"}

\* One line of CKA.
StepCKA(f) ==
    CASE f.pc = "l71" -> Line71(f)
      [] f.pc = "l73" -> Line73(f)
      [] f.pc = "l74" -> Line74(f)
      [] f.pc = "l76" -> Line76(f)
      [] f.pc = "l77" -> Line77(f)
      [] f.pc = "l78" -> Line78(f)
      [] f.pc = "l79" -> Line79(f)

RECURSIVE RunCKA(_)
RunCKA(f) == IF Finished(f) THEN f ELSE RunCKA(StepCKA(f))

\* The outcome of the call CKA(A, B, k).
CKA(A, B, k) == RunCKA(EnterCKA(A, B, k)).ret

---------------------------------------------------------------------------
\* The state: the matrices at hand, the function called on them at top level
\* with its optional argument, what it gave, what np.median was called on, and
\* the frame of a running CKA.
VARIABLES X, Y, fn, kernel, sigma, ret, medianLog, frame

vars == <<X, Y, fn, kernel, sigma, ret, medianLog, frame>>

NoMedian == [called |-> FALSE, count |-> 0]

Idle ==
    /\ fn = "idle"
    /\ kernel = "None"
    /\ sigma = NoSigma
    /\ ret = Unbound
    /\ medianLog = NoMedian
    /\ frame = NoFrame

Init ==
    /\ X \in Matrices
    /\ Y \in Matrices
    /\ Idle

\* linear_kernel(X, Y)
Call_linear_kernel ==
    /\ fn = "idle"
    /\ fn' = "linear_kernel"
    /\ ret' = linear_kernel(X, Y)
    /\ UNCHANGED <<X, Y, kernel, sigma, medianLog, frame>>

\* rbf(X, Y) or rbf(X, Y, sigma)
Call_rbf ==
    /\ fn = "idle"
    /\ \E sg \in Sigmas :
          LET done == rbf(X, Y, sg)
          IN  /\ sigma' = sg
              /\ ret' = done.out
              /\ medianLog' = [called |-> done.median, count |-> done.medianOf]
    /\ fn' = "rbf"
    /\ UNCHANGED <<X, Y, kernel, frame>>

\* HSIC(X, Y)
Call_HSIC ==
    /\ fn = "idle"
    /\ fn' = "HSIC"
    /\ ret' = HSIC(X, Y)
    /\ UNCHANGED <<X, Y, kernel, sigma, medianLog, frame>>

\* CKA(X, Y) or CKA(X, Y, kernel)
Call_CKA ==
    /\ fn = "idle"
    /\ \E k \in Kernels :
          /\ kernel' = k
          /\ frame' = EnterCKA(X, Y, k)
    /\ fn' = "CKA"
    /\ UNCHANGED <<X, Y, sigma, ret, medianLog>>

\* The running CKA executes the line at its pc; ret is what the call has given
\* so far (Unbound until it returns or raises).
CKA_l71 ==
    /\ fn = "CKA"
    /\ frame.pc = "l71"
    /\ frame' = Line71(frame)
    /\ ret' = frame'.ret
    /\ UNCHANGED <<X, Y, fn, kernel, sigma, medianLog>>

CKA_l73 ==
    /\ fn = "CKA"
    /\ frame.pc = "l73"
    /\ frame' = Line73(frame)
    /\ ret' = frame'.ret
    /\ UNCHANGED <<X, Y, fn, kernel, sigma, medianLog>>

CKA_l74 ==
    /\ fn = "CKA"
    /\ frame.pc = "l74"
    /\ frame' = Line74(frame)
    /\ ret' = frame'.ret
    /\ UNCHANGED <<X, Y, fn, kernel, sigma, medianLog>>

CKA_l76 ==
    /\ fn = "CKA"
    /\ frame.pc = "l76"
    /\ frame' = Line76(frame)
    /\ ret' = frame'.ret
    /\ UNCHANGED <<X, Y, fn, kernel, sigma, medianLog>>

CKA_l77 ==
    /\ fn = "CKA"
    /\ frame.pc = "l77"
    /\ frame' = Line77(frame)
    /\ ret' = frame'.ret
    /\ UNCHANGED <<X, Y, fn, kernel, sigma, medianLog>>

CKA_l78 ==
    /\ fn = "CKA"
    /\ frame.pc = "l78"
    /\ frame' = Line78(frame)
    /\ ret' = frame'.ret
    /\ UNCHANGED <<X, Y, fn, kernel, sigma, medianLog>>

CKA_l79 ==
    /\ fn = "CKA"
    /\ frame.pc = "l79"
    /\ frame' = Line79(frame)
    /\ ret' = frame'.ret
    /\ UNCHANGED <<X, Y, fn, kernel, sigma, medianLog>>

Next ==
    \/ Call_linear_kernel
    \/ Call_rbf
    \/ Call_HSIC
    \/ Call_CKA
    \/ CKA_l71
    \/ CKA_l73
    \/ CKA_l74
    \/ CKA_l76
    \/ CKA_l77
    \/ CKA_l78
    \/ CKA_l79

Spec == Init /\ [][Next]_vars

\* HSIC on square matrices of every size up to MaxRows, symmetric or not.
SquareMatrices ==
    UNION {{[r |-> n, c |-> n, a |-> f] : f \in [Idx(n, n) -> 0..MaxVal]} : n \in 0..MaxRows}

InitHSIC ==
    /\ X \in SquareMatrices
    /\ Y \in SquareMatrices
    /\ Idle

NextHSIC == Call_HSIC

SpecHSIC == InitHSIC /\ [][NextHSIC]_vars

---------------------------------------------------------------------------
\* What the claims speak of.
CKADone == fn = "CKA" /\ Finished(frame)

\* The kernel a call of CKA is to use: the linear one when none is given.
UsedKernel == IF kernel = "None" THEN "linear_kernel" ELSE kernel

\* Every row of M is the same point.
AllRowsCoincide(M) ==
    \A i \in 1..M.r, j \in 1..M.r, k \in 1..M.c : M.a[<<i, k>>] = M.a[<<j, k>>]

\* HSIC(K, K) > 0 for K = kernel(M, M).  Under the RBF kernel K is the
\* all-ones matrix, whose HSIC is 0, exactly when every row of M coincides.
NonDegenerate(k, M) ==
    IF k = "rbf" THEN ~AllRowsCoincide(M)
    ELSE LET K == linear_kernel(M, M).val
             h == HSIC(K, K)
         IN  h.kind = "ok" /\ h.val.num > 0

\* 0 <= v <= 1
InUnitInterval(v) == v.cls = "finite" /\ v.s >= 0 /\ RatLeq(v.q, Rat(1, 1))

IsPrefix(s, t) == Len(s) <= Len(t) /\ s = SubSeq(t, 1, Len(s))

\* C1 (as stated): CKA(X, X, kernel) returns 1 for every non-degenerate X with
\* at least 2 rows, under the linear and under the RBF kernel.
C1_SelfSimilarity ==
    (CKADone /\ X = Y /\ X.r >= 2 /\ NonDegenerate(UsedKernel, X))
        => ret = Ok(One)

\* C1, the linear kernel alone: CKA(X, X) and CKA(X, X, linear_kernel) return 1
\* for every non-degenerate X with at least 2 rows.
C1_SelfSimilarityLinear ==
    (CKADone /\ X = Y /\ X.r >= 2 /\ UsedKernel = "linear_kernel"
        /\ NonDegenerate(UsedKernel, X))
        => ret = Ok(One)

\* C2 (as stated): for non-degenerate X and Y with the same number n >= 2 of
\* rows, CKA(X, Y, kernel) returns a value in [0, 1], under the linear and
\* under the RBF kernel.
C2_BoundedRange ==
    (CKADone /\ X.r = Y.r /\ X.r >= 2
        /\ NonDegenerate(UsedKernel, X) /\ NonDegenerate(UsedKernel, Y))
        => (ret.kind = "ok" /\ InUnitInterval(ret.val))

\* C2, the linear kernel alone: the value returned lies in [0, 1].
C2_BoundedRangeLinear ==
    (CKADone /\ X.r = Y.r /\ X.r >= 2 /\ UsedKernel = "linear_kernel"
        /\ NonDegenerate(UsedKernel, X) /\ NonDegenerate(UsedKernel, Y))
        => (ret.kind = "ok" /\ InUnitInterval(ret.val))

\* C3: for X and Y with the same number of rows, CKA(X, Y, kernel) ends as
\* CKA(Y, X, kernel) does: the same value, or the same exception.
C3_Symmetry ==
    (CKADone /\ X.r = Y.r) => ret = CKA(Y, X, kernel)

\* C3's case: two different matrices whose CKA is a value strictly between 0 and 1.
C3_Witness ==
    /\ CKADone
    /\ X # Y
    /\ ret.kind = "ok"
    /\ ret.val.cls = "finite"
    /\ ret.val.s = 1
    /\ ret.val # One

\* C4 (as stated): when HSIC(K, K) = 0 or HSIC(L, L) = 0, CKA ends in an error
\* and returns no value.
C4_DegenerateVarianceRejected ==
    (/\ CKADone
     /\ frame.varK # Unbound
     /\ frame.varL # Unbound
     /\ \/ (frame.varK.cls = "finite" /\ frame.varK.s = 0)
        \/ (frame.varL.cls = "finite" /\ frame.varL.s = 0))
        => ret.kind = "raise"

\* C5: HSIC on matrices of fewer than 2 rows, and CKA on inputs of fewer than 2
\* rows, end in an exception and return no number; for 1 x 1 matrices, and for
\* 1-row inputs under the linear kernel, it is the ZeroDivisionError of the
\* (n-1)^2 = 0 normalizer.
C5_DegenerateSizeRejected ==
    /\ (fn = "HSIC" /\ (X.r < 2 \/ Y.r < 2)) => ret.kind = "raise"
    /\ (fn = "HSIC" /\ X.r = 1 /\ X.c = 1 /\ Y.r = 1 /\ Y.c = 1)
          => ret = Raise("ZeroDivisionError")
    /\ (CKADone /\ (X.r < 2 \/ Y.r < 2)) => ret.kind = "raise"
    /\ (CKADone /\ X.r = 1 /\ Y.r = 1 /\ UsedKernel = "linear_kernel")
          => ret = Raise("ZeroDivisionError")

\* C5's case: HSIC was called on 1 x 1 matrices and raised.
C5_Witness ==
    /\ fn = "HSIC"
    /\ X.r = 1 /\ X.c = 1 /\ Y.r = 1 /\ Y.c = 1
    /\ ret = Raise("ZeroDivisionError")

\* C6 (as stated): linear_kernel(X, Y) fails exactly when X and Y do not have
\* the same number of rows, and returns an n x n matrix when both have n rows.
C6_RowMismatchRejected ==
    (fn = "linear_kernel" /\ X.r > 0 /\ Y.r > 0)
        => /\ (ret.kind = "raise") <=> (X.r # Y.r)
           /\ X.r = Y.r => (ret.kind = "ok" /\ ret.val.r = X.r /\ ret.val.c = X.r)

\* C6 (amended): linear_kernel(X, Y) fails exactly when X and Y do not have the
\* same number of columns, and otherwise returns an X.rows x Y.rows matrix
\* (n x n when both have n rows); rbf fails, before np.median is called,
\* whenever the column counts differ, and a matrix it returns for two inputs of
\* n rows is n x n.
C6_ColumnMismatchRejected ==
    /\ fn = "linear_kernel"
          => /\ (ret.kind = "raise") <=> (X.c # Y.c)
             /\ ret.kind = "raise" => ret.exc = "ValueError"
             /\ ret.kind = "ok" => (ret.val.r = X.r /\ ret.val.c = Y.r)
    /\ (fn = "rbf" /\ X.c # Y.c)
          => (ret = Raise("ValueError") /\ ~medianLog.called)
    /\ (fn = "rbf" /\ X.r = Y.r /\ ret.kind = "ok")
          => (ret.val.r = X.r /\ ret.val.c = X.r)

\* C6's case: linear_kernel was called on matrices of different row counts and
\* returned a matrix that is not square.
C6_Witness ==
    /\ fn = "linear_kernel"
    /\ X.r # Y.r
    /\ X.r > 0 /\ Y.r > 0
    /\ ret.kind = "ok"
    /\ ret.val.r = X.r /\ ret.val.c = Y.r

\* C7 (as stated): rbf without sigma on a matrix whose rows all coincide ends in
\* an error or returns the kernel of a fixed fallback bandwidth, and np.median is
\* never called on the empty set.
C7_NoMedianOfEmpty ==
    (fn = "rbf" /\ ~sigma.given /\ X = Y /\ X.r >= 2 /\ AllRowsCoincide(X))
        => /\ ret.kind = "raise" \/ "e" \in DOMAIN ret.val
           /\ ~(medianLog.called /\ medianLog.count = 0)

\* C8: for n x n matrices K and L, n >= 2, symmetric or not, HSIC(K, L) returns
\* trace(K H L H) / (n-1)^2, the product taken left to right with the one
\* centering matrix H of size n (n H in the model, n^2 in the denominator).
C8_HSICDefinition ==
    (fn = "HSIC" /\ X.r >= 2 /\ X.c = X.r /\ Y.r = X.r /\ Y.c = X.r)
        => ret = Ok(Rat(Trace(MatProd(MatProd(MatProd(X, H(X.r)), Y), H(X.r))),
                        X.r * X.r * (X.r - 1) * (X.r - 1)))

\* C8's case: HSIC was called on two matrices of MaxRows rows, neither
\* symmetric, and returned a nonzero value.
C8_Witness ==
    /\ fn = "HSIC"
    /\ X.r = MaxRows /\ X.c = MaxRows /\ Y.r = MaxRows /\ Y.c = MaxRows
    /\ X # Transpose(X)
    /\ Y # Transpose(Y)
    /\ ret.kind = "ok"
    /\ ret.val.num # 0

\* The calls C9 expects of CKA under kernel k, in order.
ExpectedCalls(k) ==
    << [fn |-> k, args |-> <<"X", "X">>],
       [fn |-> k, args |-> <<"Y", "Y">>],
       [fn |-> "HSIC", args |-> <<"K", "L">>],
       [fn |-> "HSIC", args |-> <<"K", "K">>],
       [fn |-> "HSIC", args |-> <<"L", "L">>] >>

\* C9: CKA uses the linear kernel when none is given; at every moment the calls
\* it has made are the first of kernel(X, X), kernel(Y, Y), HSIC(K, L),
\* HSIC(K, K), HSIC(L, L), each with two arguments; K and L are the values of
\* the first two; and when it returns it has made all five and returns
\* HSIC(K, L) / (sqrt(HSIC(K, K)) * sqrt(HSIC(L, L))).
C9_Orchestration ==
    fn = "CKA"
        => /\ IsPrefix(frame.calls, ExpectedCalls(UsedKernel))
           /\ frame.K # Unbound => frame.K = ApplyKernel(UsedKernel, X, X).val
           /\ frame.L # Unbound => frame.L = ApplyKernel(UsedKernel, Y, Y).val
           /\ frame.hsic # Unbound => Len(frame.calls) >= 3
           /\ frame.pc = "returned"
                 => /\ frame.calls = ExpectedCalls(UsedKernel)
                    /\ ret = Ok(RDiv(RatToReal(HSIC(frame.K, frame.L).val),
                                     RMul(npsqrt(HSIC(frame.K, frame.K).val),
                                          npsqrt(HSIC(frame.L, frame.L).val))))

\* C9's case: CKA was called without a kernel and has returned.
C9_Witness ==
    /\ fn = "CKA"
    /\ kernel = "None"
    /\ frame.pc = "returned"
    /\ Len(frame.calls) = 5
    /\ frame.calls[1].fn = "linear_kernel"
    /\ X # Y

\* D[i, j] = G[i, i] - 2 G[i, j] + G[j, j] for the square matrix G, as C10 has it.
ClaimedDistances(G) ==
    [r |-> G.r, c |-> G.c,
     a |-> [ij \in Idx(G.r, G.c) |->
              G.a[<<ij[1], ij[1]>>] - 2 * G.a[ij] + G.a[<<ij[2], ij[2]>>]]]

\* C10 (as stated): for X and Y of the same shape, rbf(X, Y, sigma) returns the
\* matrix of exp(-D[i, j] / (2 sigma^2)) with D as above for G = X Y^T; sigma^2
\* is the median of the nonzero entries of D when sigma is not supplied (and D
\* has one), and the supplied value squared, with no median computed, when it is.
C10_RbfFormula ==
    LET D == ClaimedDistances(MatProd(X, Transpose(Y)))
        s2 == IF sigma.given THEN Rat(sigma.v * sigma.v, 1)
              ELSE Median(D, NonZero(D)).q
    IN  (/\ fn = "rbf"
         /\ X.r = Y.r
         /\ X.c = Y.c
         /\ sigma.given => sigma.v > 0
         /\ ~sigma.given => (NonZero(D) # {} /\ s2.num > 0))
            => /\ ret.kind = "ok"
               /\ medianLog.called = ~sigma.given
               /\ ret.val = ExpScaled(D, s2)

=============================================================================
